---- MODULE Spec2Model ----
(***************************************************************************)
(* Model of rospkg/rosdistro/distro.py: rule expansion (expand_rule),      *)
(* variant resolution (Variant.__init__), released-stack queries           *)
(* (Distro.get_released_stacks), version parsing (_distro_version) and     *)
(* the manifest loader (load_distro).                                      *)
(*                                                                         *)
(* Python strings are modelled as sequences of one-character strings, so   *)
(* that str.replace and str.find are computed character by character.      *)
(* Python's None is the one-element sequence <<"None">>, which is no       *)
(* character sequence.                                                     *)
(***************************************************************************)
EXTENDS Integers, Sequences, FiniteSets, TLC

VARIABLES
    pc,              \* position of the call in progress
    \* expand_rule(rule, stack_name, stack_ver, release_name, revision)
    rule, stack_name, stack_ver, release_name, revision, expanded,
    \* Variant(variant_name, variants_props)
    variants_props, variant_name, frames, variant_out,
    \* _distro_version(version_val)
    version_val, version_out,
    \* Distro(stacks, ...).get_released_stacks()
    stacks_arg, self_stacks, todo, retval, released_out,
    \* load_distro(source_uri)
    source, raw_data, load_out

expandVars == <<rule, stack_name, stack_ver, release_name, revision, expanded>>
variantVars == <<variants_props, variant_name, frames, variant_out>>
versionVars == <<version_val, version_out>>
distroVars == <<stacks_arg, self_stacks, todo, retval, released_out>>
loadVars == <<source, raw_data, load_out>>

vars == <<pc, expandVars, variantVars, versionVars, distroVars, loadVars>>

(***************************************************************************)
(* Python values                                                           *)
(***************************************************************************)
None == <<"None">>

\* Python truth value of a str-or-None: None and '' are false.
Truthy(v) == v # None /\ v # <<>>

\* An outcome of a call: a returned value or a raised exception.
Return(v) == [kind |-> "return", value |-> v]
Raise(exc) == [kind |-> "raise", value |-> exc]
NotCalled == [kind |-> "none", value |-> <<>>]

\* The variables of the operations a specification does not exercise.
IdleExpand ==
    /\ rule = <<>>
    /\ stack_name = <<>>
    /\ stack_ver = None
    /\ release_name = <<>>
    /\ revision = None
    /\ expanded = NotCalled

IdleVariant ==
    /\ variants_props = <<>>
    /\ variant_name = ""
    /\ frames = <<>>
    /\ variant_out = NotCalled

IdleVersion ==
    /\ version_val = [str |-> <<>>]
    /\ version_out = NotCalled

IdleDistro ==
    /\ stacks_arg = <<>>
    /\ self_stacks = <<>>
    /\ todo = {}
    /\ retval = <<>>
    /\ released_out = NotCalled

IdleLoad ==
    /\ source = [undecodable |-> TRUE]
    /\ raw_data = None
    /\ load_out = NotCalled

\* str.find(sub): the lowest 0-based index where sub occurs in s, or -1.
Occurrences(s, sub) ==
    {i \in 0..(Len(s) - Len(sub)) : SubSeq(s, i + 1, i + Len(sub)) = sub}

Find(s, sub) ==
    IF Occurrences(s, sub) = {} THEN -1
    ELSE CHOOSE i \in Occurrences(s, sub) : \A j \in Occurrences(s, sub) : i <= j

\* str.replace(old, new): every non-overlapping occurrence, left to right.
RECURSIVE Replace(_, _, _)
Replace(s, old, new) ==
    IF Len(s) < Len(old) THEN s
    ELSE IF SubSeq(s, 1, Len(old)) = old
         THEN new \o Replace(SubSeq(s, Len(old) + 1, Len(s)), old, new)
         ELSE <<Head(s)>> \o Replace(Tail(s), old, new)

(***************************************************************************)
(* expand_rule                                                             *)
(***************************************************************************)
STACK_NAME == <<"$", "S", "T", "A", "C", "K", "_", "N", "A", "M", "E">>
STACK_VERSION ==
    <<"$", "S", "T", "A", "C", "K", "_", "V", "E", "R", "S", "I", "O", "N">>
RELEASE_NAME ==
    <<"$", "R", "E", "L", "E", "A", "S", "E", "_", "N", "A", "M", "E">>
REVISION == <<"$", "R", "E", "V", "I", "S", "I", "O", "N">>

\* Lines 47-50: the three unconditional/conditional substitutions.
Substituted(r, name, ver, release) ==
    LET s1 == Replace(r, STACK_NAME, name)
        s2 == IF Truthy(ver) THEN Replace(s1, STACK_VERSION, ver) ELSE s1
    IN  Replace(s2, RELEASE_NAME, release)

\* A plausible slip: `if s.find('$REVISION') and not revision`, where the
\* -1 of "not found" is true.
RevisionMissingTruthyFind(s, rev) == Find(s, REVISION) # 0 /\ ~Truthy(rev)

\* Line 51: the guard of the raise.
RevisionMissing(s, rev) == Find(s, REVISION) > 0 /\ ~Truthy(rev)

expand_rule(r, name, ver, release, rev) ==
    LET s == Substituted(r, name, ver, release)
    IN  IF RevisionMissing(s, rev) THEN Raise("DistroException")
        ELSE IF Truthy(rev) THEN Return(Replace(s, REVISION, rev))
        ELSE Return(s)

\* Inputs of expand_rule: a template is up to MaxParts pieces.
MaxParts == 2

RulePieces == {STACK_NAME, STACK_VERSION, RELEASE_NAME, REVISION, <<"$">>, <<"/">>}

RECURSIVE Joined(_, _)
Joined(pieces, n) ==
    IF n = 0 THEN {<<>>}
    ELSE Joined(pieces, n - 1)
         \cup {p \o q : p \in pieces, q \in Joined(pieces, n - 1)}

Rules == Joined(RulePieces, MaxParts)
StackNameInputs == {<<"f", "o", "o">>, <<"R", "E", "V", "I", "S", "I", "O", "N">>}
StackVerInputs == {None, <<>>, <<"1", ".", "2">>}
ReleaseInputs == {<<"b", "a", "r">>}
RevisionInputs == {None, <<>>, <<"4", "2">>}

InitExpand ==
    /\ pc = "call"
    /\ rule \in Rules
    /\ stack_name \in StackNameInputs
    /\ stack_ver \in StackVerInputs
    /\ release_name \in ReleaseInputs
    /\ revision \in RevisionInputs
    /\ expanded = NotCalled
    /\ IdleVariant /\ IdleVersion /\ IdleDistro /\ IdleLoad

ExpandRule ==
    /\ pc = "call"
    /\ expanded' = expand_rule(rule, stack_name, stack_ver, release_name, revision)
    /\ pc' = "done"
    /\ UNCHANGED <<rule, stack_name, stack_ver, release_name, revision>>
    /\ UNCHANGED <<variantVars, versionVars, distroVars, loadVars>>

NextExpand == ExpandRule

SpecExpand == InitExpand /\ [][NextExpand]_vars

(***************************************************************************)
(* Variant.__init__                                                        *)
(*                                                                         *)
(* variants_props maps variant names to their properties; a properties    *)
(* mapping has the keys "stacks" (a list of stack names) and "extends"     *)
(* (a str, [str |-> name], or a list, [list |-> names]), each optional.    *)
(* The recursion of line 123 is a stack of frames, one per constructor     *)
(* call in progress; a raised exception unwinds all of them, as no frame   *)
(* catches.                                                                *)
(***************************************************************************)
Names == {"A", "B", "C"}
StackLists == {<<>>, <<"x">>, <<"y", "x">>}

\* Bounds: parent entries in the whole table, constructor calls in progress.
MaxEdges == 2
MaxDepth == 4

\* Line 106, with `or` for `and`: a variant with only one of the keys fails.
MissingEitherKey(props) ==
    ~("stacks" \in DOMAIN props) \/ ~("extends" \in DOMAIN props)

\* Line 106: neither 'stacks' nor 'extends' in props.
MissingKeys(props) ==
    ~("stacks" \in DOMAIN props) /\ ~("extends" \in DOMAIN props)

\* Lines 116-118 without the wrapping of a str: a str parent is dropped.
ExtendsListOnly(props) ==
    IF "extends" \notin DOMAIN props THEN <<>>
    ELSE IF "str" \in DOMAIN props.extends THEN <<>>
    ELSE props.extends.list

\* Lines 115-120: the parents the loop of line 122 visits; a str is one parent.
Extends(props) ==
    IF "extends" \notin DOMAIN props THEN <<>>
    ELSE IF "str" \in DOMAIN props.extends THEN <<props.extends.str>>
    ELSE props.extends.list

\* Line 110: list(props.get('stacks', [])).
ExplicitStacks(props) ==
    IF "stacks" \in DOMAIN props THEN props.stacks ELSE <<>>

\* Line 124 with the operands swapped: the parent's stacks are appended.
AppendParent(parent_stack_names, stack_names) ==
    stack_names \o parent_stack_names

\* Line 124 dropping the names the parent already brought.
PrependParentOnce(parent_stack_names, stack_names) ==
    parent_stack_names
        \o SelectSeq(stack_names,
                     LAMBDA n : \A i \in 1..Len(parent_stack_names) :
                                    parent_stack_names[i] # n)

\* Line 124: self.stack_names = parent_variant.stack_names + self.stack_names.
PrependParent(parent_stack_names, stack_names) ==
    parent_stack_names \o stack_names

\* Lines 99-120 of one constructor call: the exception it raises, or its
\* frame as the loop of line 122 starts.
Enter(name, table) ==
    IF name \notin DOMAIN table THEN Raise("KeyError")
    ELSE IF MissingKeys(table[name]) THEN Raise("InvalidDistro")
    ELSE Return([name |-> name,
                 parents |-> Extends(table[name]),
                 i |-> 1,
                 stack_names |-> ExplicitStacks(table[name]),
                 stack_names_explicit |-> ExplicitStacks(table[name])])

\* The constructed object (lines 99, 112, 120, 124).
VariantObject(frame) ==
    [name |-> frame.name,
     parents |-> frame.parents,
     stack_names |-> frame.stack_names,
     stack_names_explicit |-> frame.stack_names_explicit]

Top == frames[Len(frames)]

\* Variant(variant_name, variants_props) is called.
VariantCall ==
    /\ pc = "call"
    /\ LET r == Enter(variant_name, variants_props)
       IN  IF r.kind = "raise"
           THEN /\ variant_out' = r
                /\ frames' = <<>>
                /\ pc' = "done"
           ELSE /\ frames' = <<r.value>>
                /\ variant_out' = variant_out
                /\ pc' = "run"
    /\ UNCHANGED <<variants_props, variant_name>>
    /\ UNCHANGED <<expandVars, versionVars, distroVars, loadVars>>

\* Line 123: the loop constructs the next parent.
VariantRecurse ==
    /\ pc = "run"
    /\ Top.i <= Len(Top.parents)
    /\ Len(frames) < MaxDepth
    /\ LET r == Enter(Top.parents[Top.i], variants_props)
       IN  IF r.kind = "raise"
           THEN /\ variant_out' = r
                /\ frames' = <<>>
                /\ pc' = "done"
           ELSE /\ frames' = Append(frames, r.value)
                /\ variant_out' = variant_out
                /\ pc' = "run"
    /\ UNCHANGED <<variants_props, variant_name>>
    /\ UNCHANGED <<expandVars, versionVars, distroVars, loadVars>>

\* The loop is over: the constructor returns, to line 124 of its caller or
\* to the caller of the outermost constructor.
VariantReturn ==
    /\ pc = "run"
    /\ Top.i > Len(Top.parents)
    /\ IF Len(frames) = 1
       THEN /\ variant_out' = Return(VariantObject(Top))
            /\ frames' = <<>>
            /\ pc' = "done"
       ELSE LET caller == frames[Len(frames) - 1]
            IN  /\ frames' =
                       [SubSeq(frames, 1, Len(frames) - 1) EXCEPT
                           ![Len(frames) - 1] =
                               [caller EXCEPT
                                   !.stack_names =
                                       PrependParent(Top.stack_names,
                                                     caller.stack_names),
                                   !.i = caller.i + 1]]
                /\ variant_out' = variant_out
                /\ pc' = "run"
    /\ UNCHANGED <<variants_props, variant_name>>
    /\ UNCHANGED <<expandVars, versionVars, distroVars, loadVars>>

\* Inputs: the properties of a variant with `k` parent entries.
ExtendsValues(k) ==
    {[list |-> l] : l \in [1..k -> Names]}
        \cup (IF k = 1 THEN {[str |-> n] : n \in Names} ELSE {})

PropsWith(k) ==
    {[extends |-> e] : e \in ExtendsValues(k)}
        \cup {[stacks |-> s, extends |-> e] : s \in StackLists, e \in ExtendsValues(k)}
        \cup (IF k = 0 THEN {[stacks |-> s] : s \in StackLists} \cup {<<>>} ELSE {})

\* A name the table does not define.
Undefined == [undefined |-> TRUE]

PropsUpTo(k) == {Undefined} \cup UNION {PropsWith(j) : j \in 0..k}

Edges(props) == IF props = Undefined THEN 0 ELSE Len(Extends(props))

Table(a, b, c) ==
    LET g == [A |-> a, B |-> b, C |-> c]
    IN  [n \in {m \in Names : g[m] # Undefined} |-> g[n]]

InitVariant ==
    /\ pc = "call"
    /\ \E a \in PropsUpTo(MaxEdges) :
         \E b \in PropsUpTo(MaxEdges - Edges(a)) :
           \E c \in PropsUpTo(MaxEdges - Edges(a) - Edges(b)) :
             variants_props = Table(a, b, c)
    /\ variant_name \in Names
    /\ frames = <<>>
    /\ variant_out = NotCalled
    /\ IdleExpand /\ IdleVersion /\ IdleDistro /\ IdleLoad

NextVariant == VariantCall \/ VariantRecurse \/ VariantReturn

\* The innermost constructor call waits at line 123 for a call the depth
\* bound of the model does not let it make.
AtDepthBound ==
    /\ pc = "run"
    /\ Top.i <= Len(Top.parents)
    /\ Len(frames) >= MaxDepth

SpecVariant == InitVariant /\ [][NextVariant]_vars

(***************************************************************************)
(* Names in scope                                                          *)
(*                                                                         *)
(* A name a function reads is looked up among its locals, the module's     *)
(* globals and the builtins; reading a name bound in none of them raises   *)
(* NameError.                                                              *)
(***************************************************************************)
\* Lines 37-40 (imports) and the classes and functions the module defines.
ModuleNames ==
    {"os", "sys", "urllib2", "yaml",
     "DistroException", "InvalidDistro", "expand_rule", "DistroStack",
     "Variant", "Distro", "load_distro", "_load_distro_stacks",
     "_distro_version"}

Builtins ==
    {"str", "list", "type", "len", "open", "object", "property",
     "Exception", "KeyError", "False", "None"}

NameLookup(name, locals) ==
    IF name \in locals \cup ModuleNames \cup Builtins
    THEN Return(name) ELSE Raise("NameError")

(***************************************************************************)
(* _distro_version                                                         *)
(*                                                                         *)
(* The argument is a str, [str |-> chars], or a non-negative int,          *)
(* [int |-> n], as the YAML decoder yields them.                           *)
(***************************************************************************)
Digits == {"0", "1", "2", "3", "4", "5", "6", "7", "8", "9"}
DigitChars == <<"0", "1", "2", "3", "4", "5", "6", "7", "8", "9">>
Whitespace == {" "}
AsciiLowercase ==
    {"a", "b", "c", "d", "e", "f", "g", "h", "i", "j", "k", "l", "m", "n", "o", "p", "q", "r", "s", "t", "u", "v", "w", "x", "y", "z"}
AsciiUppercase ==
    {"A", "B", "C", "D", "E", "F", "G", "H", "I", "J", "K", "L", "M", "N", "O", "P", "Q", "R", "S", "T", "U", "V", "W", "X", "Y", "Z"}

\* Line 234: string.ascii_letters + string.digits + '.+~'.
ValidChars == AsciiLowercase \cup AsciiUppercase \cup Digits \cup {".", "+", "~"}

RECURSIVE IntStr(_)
IntStr(n) ==
    IF n < 10 THEN <<DigitChars[n + 1]>>
    ELSE IntStr(n \div 10) \o <<DigitChars[(n % 10) + 1]>>

\* Line 228: str(version_val).
Str(val) == IF "str" \in DOMAIN val THEN val.str ELSE IntStr(val.int)

\* Line 229: the pattern '\$Revision:\s*([0-9]*)\s*\$'.
RevisionKeyword == <<"$", "R", "e", "v", "i", "s", "i", "o", "n", ":">>

RECURSIVE SkipWhile(_, _, _)
SkipWhile(s, p, class) ==
    IF p <= Len(s) /\ s[p] \in class THEN SkipWhile(s, p + 1, class) ELSE p

\* The pattern matched at 0-based index i of s, where the keyword occurs:
\* group 1, or None when the rest does not match.
MatchAt(s, i) ==
    LET p1 == SkipWhile(s, i + Len(RevisionKeyword) + 1, Whitespace)
        p2 == SkipWhile(s, p1, Digits)
        p3 == SkipWhile(s, p2, Whitespace)
    IN  IF p3 <= Len(s) /\ s[p3] = "$" THEN SubSeq(s, p1, p2 - 1) ELSE None

\* re.search: group 1 of the leftmost match anywhere in s, or None.
re_search(s) ==
    LET starts == {i \in Occurrences(s, RevisionKeyword) : MatchAt(s, i) # None}
    IN  IF starts = {} THEN None
        ELSE MatchAt(s, CHOOSE i \in starts : \A j \in starts : i <= j)

_distro_version(val) ==
    LET s == Str(val)
    IN  IF NameLookup("re", {"version_val"}).kind = "raise"
        THEN Raise("NameError")
        ELSE LET m == re_search(s)
                 v == IF m # None THEN <<"r">> \o m ELSE s
             IN  IF NameLookup("string", {"version_val", "m"}).kind = "raise"
                 THEN Raise("NameError")
                 ELSE IF \E i \in 1..Len(v) : v[i] \notin ValidChars
                      THEN Raise("InvalidDistro")
                      ELSE Return(v)

\* Inputs: a version string is up to MaxVersionParts pieces.
MaxVersionParts == 3

VersionPieces ==
    {RevisionKeyword, <<" ">>, <<"4", "2">>, <<"$">>, <<"1", ".", "2">>,
     <<"/">>, <<"+", "~">>, <<"r">>}

VersionInts == {0, 7, 42}

InitVersion ==
    /\ pc = "call"
    /\ version_val \in {[str |-> s] : s \in Joined(VersionPieces, MaxVersionParts)}
                           \cup {[int |-> n] : n \in VersionInts}
    /\ version_out = NotCalled
    /\ IdleExpand /\ IdleVariant /\ IdleDistro /\ IdleLoad

DistroVersion ==
    /\ pc = "call"
    /\ version_out' = _distro_version(version_val)
    /\ pc' = "done"
    /\ UNCHANGED version_val
    /\ UNCHANGED <<expandVars, variantVars, distroVars, loadVars>>

NextVersion == DistroVersion

SpecVersion == InitVersion /\ [][NextVersion]_vars

(***************************************************************************)
(* Distro.get_released_stacks                                              *)
(*                                                                         *)
(* self.stacks maps stack names to DistroStack objects, of which the       *)
(* query reads the version: a str or None.  The loop of line 150 visits    *)
(* the items of the dict in an order the program does not choose.          *)
(***************************************************************************)
StackKeys == {"x", "y", "z"}
StackVersions == {None, <<>>, <<"1", ".", "0">>}

\* Line 151 testing `is not None`: an empty version counts as released.
VersionNotNone(obj) == obj.version # None

\* Line 151: if obj.version.
HasVersion(obj) == Truthy(obj.version)

DistroStacks ==
    UNION {[K -> {[name |-> "", version |-> v] : v \in StackVersions}]
               : K \in SUBSET StackKeys}

\* Lines 60-68: the object of a key carries the key as its name.
Named(m) == [k \in DOMAIN m |-> [m[k] EXCEPT !.name = k]]

\* Lines 132-140: Distro.__init__ stores its argument.
InitDistro ==
    /\ pc = "call"
    /\ stacks_arg \in {Named(m) : m \in DistroStacks}
    /\ self_stacks = stacks_arg
    /\ todo = {}
    /\ retval = <<>>
    /\ released_out = NotCalled
    /\ IdleExpand /\ IdleVariant /\ IdleVersion /\ IdleLoad

\* Lines 148-150: retval = {} and the loop starts.
ReleasedCall ==
    /\ pc = "call"
    /\ retval' = <<>>
    /\ todo' = DOMAIN self_stacks
    /\ pc' = "loop"
    /\ UNCHANGED <<stacks_arg, self_stacks, released_out>>
    /\ UNCHANGED <<expandVars, variantVars, versionVars, loadVars>>

\* Lines 150-152: one item of the loop.
ReleasedItem ==
    /\ pc = "loop"
    /\ \E k \in todo :
         /\ retval' = IF HasVersion(self_stacks[k])
                      THEN retval @@ (k :> self_stacks[k])
                      ELSE retval
         /\ todo' = todo \ {k}
    /\ pc' = "loop"
    /\ UNCHANGED <<stacks_arg, self_stacks, released_out>>
    /\ UNCHANGED <<expandVars, variantVars, versionVars, loadVars>>

\* Line 153: return retval.
ReleasedReturn ==
    /\ pc = "loop"
    /\ todo = {}
    /\ released_out' = Return(retval)
    /\ pc' = "done"
    /\ UNCHANGED <<stacks_arg, self_stacks, todo, retval>>
    /\ UNCHANGED <<expandVars, variantVars, versionVars, loadVars>>

NextDistro == ReleasedCall \/ ReleasedItem \/ ReleasedReturn

SpecDistro == InitDistro /\ [][NextDistro]_vars

(***************************************************************************)
(* load_distro                                                             *)
(*                                                                         *)
(* The source is what reading and decoding source_uri gives: a YAML error, *)
(* [undecodable |-> TRUE], or the decoded manifest, [decoded |-> m], a     *)
(* mapping with the optional keys "stacks", "release", "version" and       *)
(* "variants", the last a sequence of mappings from variant names to       *)
(* properties.  The model follows the execution as far as it gets: the     *)
(* first statement of the try block of line 173 raises for every manifest, *)
(* so lines 175-195 never run.                                             *)
(***************************************************************************)
\* The names load_distro binds before line 174: its parameter, the file of
\* line 166, raw_data of lines 167/169, the exception of line 170.
LoadLocals == {"source_uri", "f", "raw_data", "e"}

\* Line 174: stack_props = y['stacks'] reads the name y.
Line174 == NameLookup("y", LoadLocals)

\* Lines 188-189: the handler of the try block turns a KeyError into
\* InvalidDistro; any other exception passes through.
LoadHandler(outcome) ==
    IF outcome = Raise("KeyError") THEN Raise("InvalidDistro") ELSE outcome

\* Lines 162-171: the source is read and decoded.
LoadParse ==
    /\ pc = "call"
    /\ IF "undecodable" \in DOMAIN source
       THEN /\ load_out' = Raise("InvalidDistro")
            /\ raw_data' = raw_data
            /\ pc' = "done"
       ELSE /\ raw_data' = source.decoded
            /\ load_out' = load_out
            /\ pc' = "try"
    /\ UNCHANGED source
    /\ UNCHANGED <<expandVars, variantVars, versionVars, distroVars>>

\* Lines 173-174 and 188-189: the try block is entered.
LoadTry ==
    /\ pc = "try"
    /\ IF Line174.kind = "raise"
       THEN /\ load_out' = LoadHandler(Line174)
            /\ pc' = "done"
       ELSE /\ load_out' = load_out
            /\ pc' = "line175"
    /\ UNCHANGED <<source, raw_data>>
    /\ UNCHANGED <<expandVars, variantVars, versionVars, distroVars>>

\* Inputs: the 'variants' sequence has up to MaxVariantEntries elements.
MaxVariantEntries == 2

VariantPropsInputs ==
    {<<>>, [stacks |-> <<"x">>], [extends |-> [str |-> "A"]],
     [stacks |-> <<"y">>, extends |-> [list |-> <<"A">>]]}

VariantEntries ==
    UNION {[K -> VariantPropsInputs] : K \in SUBSET {"A", "B"}}

VariantSeqs ==
    UNION {[1..n -> VariantEntries] : n \in 0..MaxVariantEntries}

Optional(key, values) == {<<>>} \cup {key :> v : v \in values}

Manifests ==
    {s @@ r @@ v @@ vs :
        s \in Optional("stacks", {[x |-> [version |-> <<"1", ".", "0">>]]}),
        r \in Optional("release", {<<"b", "a", "r">>}),
        v \in Optional("version", {<<"1", ".", "2">>}),
        vs \in Optional("variants", VariantSeqs)}

InitLoad ==
    /\ pc = "call"
    /\ source \in {[undecodable |-> TRUE]} \cup {[decoded |-> m] : m \in Manifests}
    /\ raw_data = None
    /\ load_out = NotCalled
    /\ IdleExpand /\ IdleVariant /\ IdleVersion /\ IdleDistro

NextLoad == LoadParse \/ LoadTry

SpecLoad == InitLoad /\ [][NextLoad]_vars

(***************************************************************************)
(* Claims about expand_rule (checked under SpecExpand)                     *)
(***************************************************************************)
RevisionAbsent == revision = None

\* C4: with no revision supplied, expand_rule raises DistroException
\* whenever the rule template has an occurrence of $REVISION at an index
\* greater than 0 (so it returns only when there is no such occurrence).
C4_RaisesOnLaterRevisionToken ==
    (pc = "done" /\ RevisionAbsent /\ \E i \in Occurrences(rule, REVISION) : i > 0)
        => expanded = Raise("DistroException")

\* C5 as stated: for a rule template without $REVISION the outcome of
\* expand_rule is the same for every revision argument, absent included.
C5_TemplateWithoutRevisionToken ==
    (pc = "done" /\ Occurrences(rule, REVISION) = {})
        => \A rev \in RevisionInputs :
               expand_rule(rule, stack_name, stack_ver, release_name, rev) = expanded

\* C5 amended: when the string left by the $STACK_NAME, $STACK_VERSION and
\* $RELEASE_NAME substitutions holds no $REVISION, the outcome of
\* expand_rule is the same for every revision argument, absent included.
C5_SubstitutedWithoutRevisionToken ==
    (/\ pc = "done"
     /\ Occurrences(Substituted(rule, stack_name, stack_ver, release_name),
                    REVISION) = {})
        => \A rev \in RevisionInputs :
               expand_rule(rule, stack_name, stack_ver, release_name, rev) = expanded

\* A call with a revision supplied, on a template whose substitutions acted
\* and left no $REVISION.
C5_Witness ==
    /\ pc = "done"
    /\ Truthy(revision)
    /\ Occurrences(Substituted(rule, stack_name, stack_ver, release_name),
                   REVISION) = {}
    /\ expanded.kind = "return"
    /\ expanded.value # rule

(***************************************************************************)
(* Claims about Variant (checked under SpecVariant)                        *)
(*                                                                         *)
(* The claims speak of the table itself: what a variant declares is read   *)
(* here from variants_props directly, and the flattened lists are          *)
(* computed by recursion over the table, not by the constructor's frames.  *)
(***************************************************************************)
StackNames == {"x", "y"}

Defined(n) == n \in DOMAIN variants_props

HasNeitherKey(n) == Defined(n) /\ DOMAIN variants_props[n] = {}

DeclaredStacks(n) ==
    IF Defined(n) /\ "stacks" \in DOMAIN variants_props[n]
    THEN variants_props[n].stacks ELSE <<>>

DeclaredParents(n) ==
    IF ~Defined(n) \/ "extends" \notin DOMAIN variants_props[n] THEN <<>>
    ELSE LET e == variants_props[n].extends
         IN  IF DOMAIN e = {"str"} THEN <<e.str>> ELSE e.list

ParentSet(n) == {DeclaredParents(n)[i] : i \in 1..Len(DeclaredParents(n))}

\* The parent sets of all names, and their closure in as many rounds as
\* there are names.
ParentsOfAll == [m \in Names |-> ParentSet(m)]

RECURSIVE Closure(_, _, _)
Closure(S, P, k) ==
    IF k = 0 THEN S
    ELSE LET T == S \cup UNION {P[m] : m \in S}
         IN  IF T = S THEN S ELSE Closure(T, P, k - 1)

\* n itself and every variant reachable from it through 'extends'.
Reachable(n) == Closure({n}, ParentsOfAll, Cardinality(Names))

CycleReachable(n) ==
    LET P == ParentsOfAll
        K == Cardinality(Names)
    IN  \E u \in Closure({n}, P, K) : u \in Closure(P[u], P, K)

AllDefined(n) == \A u \in Reachable(n) : Defined(u)

Count(x, seq) == Cardinality({i \in 1..Len(seq) : seq[i] = x})

Reverse(seq) == [i \in 1..Len(seq) |-> seq[Len(seq) + 1 - i]]

RECURSIVE FlattenedInOrder(_), InOrderOfAll(_)
InOrderOfAll(ps) ==
    IF ps = <<>> THEN <<>> ELSE FlattenedInOrder(Head(ps)) \o InOrderOfAll(Tail(ps))

\* flattened(p1) ++ ... ++ flattened(pk) ++ explicit(v)
FlattenedInOrder(n) == InOrderOfAll(DeclaredParents(n)) \o DeclaredStacks(n)

RECURSIVE FlattenedLastFirst(_), LastFirstOfAll(_)
LastFirstOfAll(ps) ==
    IF ps = <<>> THEN <<>>
    ELSE FlattenedLastFirst(Head(ps)) \o LastFirstOfAll(Tail(ps))

\* flattened(pk) ++ ... ++ flattened(p1) ++ explicit(v)
FlattenedLastFirst(n) ==
    LastFirstOfAll(Reverse(DeclaredParents(n))) \o DeclaredStacks(n)

RECURSIVE CountFlattened(_, _), CountOfAll(_, _)
CountOfAll(ps, x) ==
    IF ps = <<>> THEN 0 ELSE CountFlattened(Head(ps), x) + CountOfAll(Tail(ps), x)

\* occurrences in explicit(v) plus, per parent entry, those in its flattened list
CountFlattened(n, x) == Count(x, DeclaredStacks(n)) + CountOfAll(DeclaredParents(n), x)

Resolved == pc = "done" /\ variant_out.kind = "return"

WellFounded == ~CycleReachable(variant_name) /\ AllDefined(variant_name)

\* C1 as stated: in an acyclic table with every parent defined, the
\* flattened list of v is its parents' flattened lists in parent-list order
\* (first-listed parent first), followed by v's explicit stacks.
C1_ParentsInListedOrder ==
    (Resolved /\ WellFounded)
        => variant_out.value.stack_names = FlattenedInOrder(variant_name)

\* C1 amended: in an acyclic table with every parent defined, the
\* flattened list of v is its parents' flattened lists in reverse
\* parent-list order (last-listed parent first), followed by v's explicit
\* stacks.
C1_ParentsLastListedFirst ==
    (Resolved /\ WellFounded)
        => /\ variant_out.value.stack_names = FlattenedLastFirst(variant_name)
           /\ variant_out.value.stack_names_explicit = DeclaredStacks(variant_name)

\* A resolved variant with two parents whose flattened lists differ.
C1_Witness ==
    /\ Resolved
    /\ WellFounded
    /\ Len(DeclaredParents(variant_name)) = 2
    /\ FlattenedInOrder(variant_name) # FlattenedLastFirst(variant_name)

\* C2: no deduplication: in a resolved variant every stack name occurs as
\* often as in its explicit list plus, for each entry of its parent list,
\* as often as in that parent's flattened list.
C2_NoDeduplication ==
    (Resolved /\ WellFounded)
        => \A x \in StackNames :
               Count(x, variant_out.value.stack_names)
                   = CountFlattened(variant_name, x)

\* A stack inherited through two parent entries appears twice.
C2_Witness ==
    /\ Resolved
    /\ \E x \in StackNames :
         /\ Count(x, variant_out.value.stack_names) >= 2
         /\ Count(x, DeclaredStacks(variant_name)) = 0

\* C3: in an acyclic table with every referenced variant defined, resolving
\* v fails with InvalidDistro exactly when v or a variant reachable from v
\* has neither 'stacks' nor 'extends'; otherwise it yields a Variant (and
\* the constructor calls are never held up by the depth bound).
C3_InvalidDistroIffNeitherKey ==
    /\ (pc = "done" /\ WellFounded)
           => IF \E u \in Reachable(variant_name) : HasNeitherKey(u)
              THEN variant_out = Raise("InvalidDistro")
              ELSE variant_out.kind = "return"
    /\ AtDepthBound => ~WellFounded

\* v itself has a key, an ancestor has none, and resolving v has failed.
C3_Witness ==
    /\ WellFounded
    /\ pc = "done"
    /\ variant_out = Raise("InvalidDistro")
    /\ ~HasNeitherKey(variant_name)

\* C9 as stated: when a cycle of 'extends' is reachable from v, resolving v
\* yields neither a Variant nor a DistroException/InvalidDistro.
C9_CycleNeverCompletes ==
    CycleReachable(variant_name)
        => /\ variant_out.kind # "return"
           /\ variant_out # Raise("InvalidDistro")
           /\ variant_out # Raise("DistroException")

WellFormedCycle ==
    /\ CycleReachable(variant_name)
    /\ AllDefined(variant_name)
    /\ \A u \in Reachable(variant_name) : ~HasNeitherKey(u)

\* C9 amended: when a cycle of 'extends' is reachable from v and every
\* variant reachable from v is defined and has 'stacks' or 'extends',
\* resolving v yields neither a Variant nor a DistroException/InvalidDistro:
\* the constructor calls nest until the interpreter's recursion limit (here
\* MaxDepth) stops them.  Stated contrapositively: a resolution that has
\* ended, in a Variant or in an exception, was not of such a table.
C9_WellFormedCycleNeverCompletes ==
    (pc = "done" \/ variant_out # NotCalled) => ~WellFormedCycle

\* The recursion through a well-formed cycle has reached the depth bound
\* of the model, a variant being constructed inside itself.
C9_Witness ==
    /\ AtDepthBound
    /\ WellFormedCycle
    /\ \E i, j \in 1..Len(frames) : i < j /\ frames[i].name = frames[j].name

(***************************************************************************)
(* Claims about _distro_version (checked under SpecVersion)                *)
(***************************************************************************)
\* 'r' and the captured digits for a value holding the marker, else the
\* value itself.
Candidate(s) == IF re_search(s) # None THEN <<"r">> \o re_search(s) ELSE s

AllAllowed(s) == \A i \in 1..Len(s) : s[i] \in ValidChars

\* C6: _distro_version(raw) returns the candidate of str(raw) when all its
\* characters are in [A-Za-z0-9.+~] and raises InvalidDistro exactly when
\* one is not.
C6_NormalizesOrRejects ==
    pc = "done"
        => version_out = IF AllAllowed(Candidate(Str(version_val)))
                         THEN Return(Candidate(Str(version_val)))
                         ELSE Raise("InvalidDistro")

(***************************************************************************)
(* Claims about Distro.get_released_stacks (checked under SpecDistro)      *)
(***************************************************************************)
Released == {k \in DOMAIN stacks_arg : stacks_arg[k].version \notin {None, <<>>}}

\* C7: get_released_stacks() returns exactly the stacks whose version is
\* present and non-empty, each under its own name, whatever the order the
\* items are visited in, and leaves the Distro's stacks mapping unchanged.
C7_ReleasedStacksExactly ==
    /\ self_stacks = stacks_arg
    /\ pc = "done"
          => /\ released_out = Return([k \in Released |-> stacks_arg[k]])
             /\ \A k \in Released : released_out.value[k].name = k

\* A query that has returned some stacks and left out one with an empty
\* version and one with none.
C7_Witness ==
    /\ pc = "done"
    /\ released_out.kind = "return"
    /\ DOMAIN released_out.value # {}
    /\ \E k \in DOMAIN stacks_arg : stacks_arg[k].version = <<>>
    /\ \E k \in DOMAIN stacks_arg : stacks_arg[k].version = None

(***************************************************************************)
(* Claims about load_distro (checked under SpecLoad)                       *)
(***************************************************************************)
Decoded == "decoded" \in DOMAIN source

SingleKey(entry) == Cardinality(DOMAIN entry) = 1

\* The manifest lacks 'stacks' or 'release', or an element of 'variants'
\* is not a mapping with exactly one key.
Defective(m) ==
    \/ "stacks" \notin DOMAIN m
    \/ "release" \notin DOMAIN m
    \/ /\ "variants" \in DOMAIN m
       /\ \E i \in 1..Len(m.variants) : ~SingleKey(m.variants[i])

\* C8: load_distro on a decoded manifest that lacks 'stacks' or 'release',
\* or has a 'variants' element without exactly one key, fails with
\* InvalidDistro and returns no Distro.
C8_DefectiveManifestIsInvalidDistro ==
    (pc = "done" /\ Decoded /\ Defective(source.decoded))
        => load_out = Raise("InvalidDistro")

\* The table of all collected variant properties: a later element of the
\* sequence replaces an earlier one of the same name.
RECURSIVE Collected(_, _)
Collected(entries, n) ==
    IF n = 0 THEN <<>> ELSE entries[n] @@ Collected(entries, n - 1)

TableOf(m) == Collected(m.variants, Len(m.variants))

ParentsIn(t, n) ==
    IF "extends" \notin DOMAIN t[n] THEN <<>>
    ELSE IF DOMAIN t[n].extends = {"str"} THEN <<t[n].extends.str>>
    ELSE t[n].extends.list

StacksIn(t, n) == IF "stacks" \in DOMAIN t[n] THEN t[n].stacks ELSE <<>>

ParentSetIn(t, n) == {ParentsIn(t, n)[i] : i \in 1..Len(ParentsIn(t, n))}

WellFormedTable(t) ==
    /\ \A n \in DOMAIN t : DOMAIN t[n] # {} /\ ParentSetIn(t, n) \subseteq DOMAIN t
    /\ LET P == [n \in DOMAIN t |-> ParentSetIn(t, n)]
       IN  \A n \in DOMAIN t : n \notin Closure(P[n], P, Cardinality(DOMAIN t))

WellFormedManifest(m) ==
    /\ {"stacks", "release", "variants"} \subseteq DOMAIN m
    /\ \A i \in 1..Len(m.variants) : SingleKey(m.variants[i])
    /\ WellFormedTable(TableOf(m))

RECURSIVE FlattenedIn(_, _), FlattenedOfAllIn(_, _)
FlattenedOfAllIn(t, ps) ==
    IF ps = <<>> THEN <<>>
    ELSE FlattenedIn(t, Head(ps)) \o FlattenedOfAllIn(t, Tail(ps))

FlattenedIn(t, n) == FlattenedOfAllIn(t, Reverse(ParentsIn(t, n))) \o StacksIn(t, n)

\* Variant(n, t), for a well-formed table t.
ResolvedIn(t, n) ==
    [name |-> n,
     parents |-> ParentsIn(t, n),
     stack_names |-> FlattenedIn(t, n),
     stack_names_explicit |-> StacksIn(t, n)]

\* C10: load_distro of a well-formed manifest succeeds, and the variants
\* mapping of the Distro has exactly one entry per variant name of the
\* 'variants' sequence, each the Variant resolved against the full table
\* of collected variant properties.
C10_VariantsResolvedAgainstFullTable ==
    (pc = "done" /\ Decoded /\ WellFormedManifest(source.decoded))
        => /\ load_out.kind = "return"
           /\ load_out.value.variants
                  = [n \in DOMAIN TableOf(source.decoded)
                         |-> ResolvedIn(TableOf(source.decoded), n)]

====
